---- MODULE Spec2Model ----
(***************************************************************************)
(* A model of the saga execution engine of atomic-api-operations:          *)
(* SagaOrchestrator.executeSaga, executeSteps, executeStep, compensate     *)
(* and executeWithTimeout.  One executeSaga call is followed from await to *)
(* await; every action below is the code that runs between two awaits.     *)
(* The collaborators (store, step actions, compensations, hooks, timers)   *)
(* are the environment: each of their calls settles with an outcome drawn  *)
(* from the outcomes the interface allows.                                 *)
(*                                                                         *)
(* The SagaDefinition is an input of executeSaga.  Its length is drawn at   *)
(* the call; every other field is drawn at the one place where the code    *)
(* reads it (steps[i].retryPolicy at the head of loop turn i, onSuccess    *)
(* when the loop ends, a step's compensation when the sweep looks the step *)
(* up, onFailure when the sweep ends) and is kept in the variable          *)
(* definition from then on.  Every field is read in one place only, so the *)
(* behaviours are those of a definition fixed before the call.  Step i     *)
(* carries the id i: ids are unique.                                       *)
(*                                                                         *)
(* The second part models TransactionalOutbox: storeEvent, start, stop,    *)
(* processNow and the sweeps (processPendingEvents, processEvent), each    *)
(* sweep followed from await to await, several of them possibly in flight  *)
(* at once.  The OutboxStore keeps the events it was given with the status *)
(* its methods name; the broker and the store may reject any call.  Spec   *)
(* is the engine, OutboxSpec the outbox.                                   *)
(***************************************************************************)
EXTENDS Integers, Sequences, FiniteSets, TLC

\* Bounds of the model.
MaxSteps == 3
MaxTimeouts == 1
MaxEvents == 2
MaxSweeps == 2
MaxLen == 3
MaxRequests == 3
MaxClock == 36

\* ------------------------------------------------------------------------
\* Values

NoError == <<"none", 0, 0>>
NoValue == <<>>
NoStep == -1

ActionError(idx, a) == <<"action", idx, a>>
TimeoutError(idx, a) == <<"timeout", idx, a>>
StoreError(n) == <<"store", n, 0>>
HookError(n) == <<"hook", n, 0>>
Output(idx, a) == <<idx, a>>

Contexts == {"ctxA"}

\* TransactionalOutbox constructor: maxRetries: number = 3
defaultMaxRetries == 3

\* The maxRetries an outbox is constructed with in the model.
MaxRetriesChoices == {0, 1, defaultMaxRetries}

\* IdempotencyMiddleware constructor: keyExpiryHours: number = 24
defaultKeyExpiryHours == 24

\* The idempotency key header of a request: <<>> when the request has none.
IdempotencyKeys == {<<>>, <<"key1">>}

\* The arguments storeEvent is called with in the model.
SagaIds == {"saga1"}
StepIds == {"step1"}
EventTypes == {"PaymentProcessed"}
Payloads == {"payload1"}

\* Error messages: of a rejected broker.publish, of a rejected store call, and
\* the literal of processEvent.
PublishErrorMessage == "publish failed"
StoreErrorMessage == "store failed"
MaxRetriesMessage == "Max retries exceeded"

\* The calls made for one event, none so far: publish counts the
\* broker.publish calls, accepted those that resolved, rejected those that
\* threw, retryCounts collects the retryCount the event had when it was
\* published, markEventPublished and maxRetriesMarks count the calls of
\* store.markEventPublished and store.markEventFailed(id, 'Max retries
\* exceeded').
NoCalls ==
    [publish |-> 0, accepted |-> 0, rejected |-> 0, retryCounts |-> {},
     markEventPublished |-> 0, maxRetriesMarks |-> 0]

\* constructor default: { maxAttempts: 3, backoffMs: 1000, backoffMultiplier: 2 }
defaultRetryPolicy == [maxAttempts |-> 3, backoffMs |-> 1000, backoffMultiplier |-> 2]

\* The retry policies a step carries in the model (RetryPolicy of the types
\* file): no attempt at all, or a single try. A step without a policy gets
\* the default one and its three attempts.
RetryPolicies ==
    [maxAttempts : {0, 1}, backoffMs : {100}, backoffMultiplier : {3}]

\* step.retryPolicy as an optional field: <<>> when absent, <<p>> when present.
OptionalRetryPolicies == {<<>>} \cup {<<p>> : p \in RetryPolicies}

\* The SagaDefinition before any of it has been read. An optional field not
\* yet read is <<>>; onSuccess and onFailure are <<TRUE>> (a hook is defined)
\* or <<FALSE>> once read; compensation maps the steps the sweep looks up to
\* whether they define one.
NoDefinition ==
    [nSteps |-> 0, ids |-> <<>>, retryPolicy |-> <<>>, compensation |-> <<>>,
     onSuccess |-> <<>>, onFailure |-> <<>>]

NoExecution ==
    [status |-> "NONE", currentStep |-> NoStep, context |-> "", completedAt |-> FALSE,
     error |-> NoError, stepResults |-> <<>>]

NoStepResult ==
    [stepId |-> NoStep, status |-> "NONE", input |-> "", output |-> NoValue,
     error |-> NoError, completedAt |-> FALSE, attempts |-> 0]

\* ------------------------------------------------------------------------
\* State

VARIABLES
    definition,      \* the SagaDefinition passed to executeSaga
    execution,       \* the SagaExecution record of the call
    pc,              \* the await the call is suspended at
    i,               \* executeSteps: the loop index
    attempt,         \* executeStep: the loop variable
    stepResult,      \* executeStep: the StepResult under construction
    completedSteps,  \* compensate: the entries of the sweep not yet handled
    failureError,    \* compensate: its failureError parameter
    abandoned,       \* action attempts whose timeout fired and that have not settled
    thrown,          \* the exception executeSaga raised to its caller
    trace,           \* history: every call made to a collaborator and how it settled
    maxRetries,      \* TransactionalOutbox: its maxRetries
    liveObjects,     \* OutboxStore: getPendingEvents hands out its own event objects
    isRunning,       \* TransactionalOutbox: its isRunning
    poller,          \* TransactionalOutbox: poller holds a timer handle
    timers,          \* the interval timers that are set and not yet cleared
    outboxStore,     \* OutboxStore: the events saved, in the order they were saved
    sweeps,          \* the processPendingEvents calls made so far
    storeEventCalls, \* history: the storeEvent calls made so far and how they settled
    calls,           \* history: per event, the calls made to the broker and the store
    transactions,    \* the OutboxTransaction.execute calls made so far
    topicEventType,  \* getTopicForEvent: its eventType, a string as its characters
    topic,           \* getTopicForEvent: <<>> before the call, <<its result>> after
    idempotencyStore,\* IdempotencyStore: the keys set, each with its expiresAt
    now,             \* the clock, in hours
    requests         \* the requests the idempotency middleware was called with

sagaVars == <<definition, execution, pc, i, attempt, stepResult, completedSteps,
              failureError, abandoned, thrown, trace>>

outboxVars ==
    <<maxRetries, liveObjects, isRunning, poller, timers, outboxStore, sweeps,
      storeEventCalls, calls>>

transactionVars == <<transactions>>

topicVars == <<topicEventType, topic>>

idempotencyVars == <<idempotencyStore, now, requests>>

\* What the engine leaves alone, and what the outbox leaves alone.
notSagaVars == <<outboxVars, transactionVars, topicVars, idempotencyVars>>
notOutboxVars == <<sagaVars, transactionVars, topicVars, idempotencyVars>>

vars == <<sagaVars, outboxVars, transactionVars, topicVars, idempotencyVars>>

Cur ==
    [definition |-> definition, execution |-> execution, pc |-> pc, i |-> i,
     attempt |-> attempt, stepResult |-> stepResult, completedSteps |-> completedSteps,
     failureError |-> failureError, abandoned |-> abandoned, thrown |-> thrown,
     trace |-> trace]

Set(s) ==
    /\ definition' = s.definition
    /\ execution' = s.execution
    /\ pc' = s.pc
    /\ i' = s.i
    /\ attempt' = s.attempt
    /\ stepResult' = s.stepResult
    /\ completedSteps' = s.completedSteps
    /\ failureError' = s.failureError
    /\ abandoned' = s.abandoned
    /\ thrown' = s.thrown
    /\ trace' = s.trace
    /\ UNCHANGED notSagaVars

Log(s, e) == [s EXCEPT !.trace = Append(@, e)]

ResultStatuses(results) == [k \in 1..Len(results) |-> results[k].status]

\* The snapshot a store call receives.
StoreCall(s, call) ==
    [kind |-> "store", call |-> call, status |-> s.execution.status,
     results |-> ResultStatuses(s.execution.stepResults),
     error |-> s.execution.error]

\* ------------------------------------------------------------------------
\* SagaOrchestrator.compensate

RECURSIVE Reverse(_)
Reverse(seq) == IF seq = <<>> THEN <<>> ELSE Append(Reverse(Tail(seq)), Head(seq))

RECURSIVE SuccessIndices(_, _)
SuccessIndices(results, k) ==
    IF k > Len(results) THEN <<>>
    ELSE IF results[k].status = "SUCCESS" THEN <<k>> \o SuccessIndices(results, k + 1)
    ELSE SuccessIndices(results, k + 1)

\* CompletedSteps without the filter on the SUCCESS status.
CompletedSteps_Unfiltered(results) == Reverse([k \in 1..Len(results) |-> k])

\* CompletedSteps without the reverse().
CompletedSteps_NotReversed(results) == SuccessIndices(results, 1)

\* execution.stepResults.filter(result => result.status === 'SUCCESS').reverse(),
\* as positions in stepResults (the array holds the same objects).
CompletedSteps(results) == Reverse(SuccessIndices(results, 1))

\* definition.steps.find(s => s.id === stepId): the first step with that id,
\* 0 when there is none.
FindStep(def, stepId) ==
    LET hits == {k \in 1..Len(def.ids) : def.ids[k] = stepId}
    IN IF hits = {} THEN 0 ELSE CHOOSE k \in hits : \A m \in hits : k <= m

\* compensateEnd invoking the onFailure hook before the status is assigned.
compensateEnd_HookFirst(s, d) ==
    LET s1 == [s EXCEPT !.definition.onFailure = <<d.onFailure>>]
        s2 == [s1 EXCEPT !.execution.status = "COMPENSATED",
                         !.execution.completedAt = TRUE]
    IN IF d.onFailure
       THEN Log([s1 EXCEPT !.pc = "onFailure"],
                [kind |-> "onFailure", context |-> s.execution.context,
                 error |-> s.failureError])
       ELSE Log([s2 EXCEPT !.pc = "updateFinal"], StoreCall(s2, "updateExecution"))

\* The end of compensate: status COMPENSATED, completedAt, the onFailure hook.
\* d holds the fields of the definition that have not been read yet.
compensateEnd(s, d) ==
    LET s1 == [s EXCEPT !.execution.status = "COMPENSATED",
                        !.execution.completedAt = TRUE,
                        !.definition.onFailure = <<d.onFailure>>]
    IN IF d.onFailure
       THEN Log([s1 EXCEPT !.pc = "onFailure"],
                [kind |-> "onFailure", context |-> s.execution.context,
                 error |-> s.failureError])
       ELSE Log([s1 EXCEPT !.pc = "updateFinal"], StoreCall(s1, "updateExecution"))

\* The sweep's loop: skip the entries without a step or a compensation, stop at
\* the first compensation to await.
RECURSIVE compensateLoop(_, _)
compensateLoop(s, d) ==
    IF s.completedSteps = <<>> THEN compensateEnd(s, d)
    ELSE LET sr == s.execution.stepResults[Head(s.completedSteps)]
             k == FindStep(s.definition, sr.stepId)
         IN IF k = 0
            THEN compensateLoop([s EXCEPT !.completedSteps = Tail(@)], d)
            ELSE LET s1 == [s EXCEPT !.definition.compensation =
                                         @ @@ (k :> d.compensation[k])]
                 IN IF ~d.compensation[k]
                    THEN compensateLoop([s1 EXCEPT !.completedSteps = Tail(@)], d)
                    ELSE Log([s1 EXCEPT !.pc = "compensation"],
                             [kind |-> "compensation", step |-> s.definition.ids[k],
                              input |-> sr.input, output |-> sr.output])

\* compensate recording the failure on the execution as well.
compensate_ErrorRecorded(s, err) ==
    LET s1 == [s EXCEPT !.execution.status = "COMPENSATING", !.execution.error = err,
                        !.failureError = err, !.pc = "updateCompensating"]
    IN Log(s1, StoreCall(s1, "updateExecution"))

\* The head of compensate: status COMPENSATING and the store update.
compensate(s, err) ==
    LET s1 == [s EXCEPT !.execution.status = "COMPENSATING", !.failureError = err,
                        !.pc = "updateCompensating"]
    IN Log(s1, StoreCall(s1, "updateExecution"))

\* ------------------------------------------------------------------------
\* SagaOrchestrator.executeSaga, after executeSteps has returned

\* stepsReturned taking the COMPLETED branch whatever executeSteps returned.
stepsReturned_AlwaysCompleted(s, status, err) ==
    LET s1 == [s EXCEPT !.execution.status = "COMPLETED",
                        !.execution.completedAt = TRUE]
    IN IF s.definition.onSuccess = <<TRUE>>
       THEN Log([s1 EXCEPT !.pc = "onSuccess"],
                [kind |-> "onSuccess", context |-> s.execution.context])
       ELSE Log([s1 EXCEPT !.pc = "updateFinal"], StoreCall(s1, "updateExecution"))

stepsReturned(s, status, err) ==
    IF status = "COMPLETED"
    THEN LET s1 == [s EXCEPT !.execution.status = "COMPLETED",
                             !.execution.completedAt = TRUE]
         IN IF s.definition.onSuccess = <<TRUE>>
            THEN Log([s1 EXCEPT !.pc = "onSuccess"],
                     [kind |-> "onSuccess", context |-> s.execution.context])
            ELSE Log([s1 EXCEPT !.pc = "updateFinal"], StoreCall(s1, "updateExecution"))
    ELSE compensate(s, err)

\* catch without the assignment of the FAILED status.
catch_StatusKept(s, err) ==
    LET s1 == [s EXCEPT !.execution.error = err,
                        !.execution.completedAt = TRUE, !.pc = "updateFailed"]
    IN Log(s1, StoreCall(s1, "updateExecution"))

\* The catch block of executeSaga up to its store update.
catch(s, err) ==
    LET s1 == [s EXCEPT !.execution.status = "FAILED", !.execution.error = err,
                        !.execution.completedAt = TRUE, !.pc = "updateFailed"]
    IN Log(s1, StoreCall(s1, "updateExecution"))

\* ------------------------------------------------------------------------
\* SagaOrchestrator.executeStep and executeSteps

RECURSIVE Pow(_, _)
Pow(b, e) == IF e <= 0 THEN 1 ELSE b * Pow(b, e - 1)

\* backoffDelay with the exponent attempt instead of attempt - 1.
backoffDelay_ExponentAttempt(policy, a) ==
    policy.backoffMs * Pow(policy.backoffMultiplier, a)

\* retryPolicy.backoffMs * Math.pow(retryPolicy.backoffMultiplier, attempt - 1)
backoffDelay(policy, a) == policy.backoffMs * Pow(policy.backoffMultiplier, a - 1)

\* step.retryPolicy || this.defaultRetryPolicy
retryPolicy(step) ==
    IF step.retryPolicy = <<>> THEN defaultRetryPolicy ELSE step.retryPolicy[1]

\* definition.steps[i], as far as executeStep reads it.
CurrentStep(s) ==
    [id |-> s.definition.ids[s.i + 1], retryPolicy |-> s.definition.retryPolicy[s.i + 1]]

\* stepReturned pushing the result twice.
stepReturned_PushedTwice(s) ==
    LET s1 == [s EXCEPT !.execution.stepResults = Append(Append(@, s.stepResult),
                                                         s.stepResult)]
    IN IF s.stepResult.status = "FAILED"
       THEN stepsReturned(s1, "FAILED", s.stepResult.error)
       ELSE Log([s1 EXCEPT !.pc = "updateStep"], StoreCall(s1, "updateExecution"))

\* executeSteps after executeStep has returned: push the result, leave on FAILED.
stepReturned(s) ==
    LET s1 == [s EXCEPT !.execution.stepResults = Append(@, s.stepResult)]
    IN IF s.stepResult.status = "FAILED"
       THEN stepsReturned(s1, "FAILED", s.stepResult.error)
       ELSE Log([s1 EXCEPT !.pc = "updateStep"], StoreCall(s1, "updateExecution"))

\* invokeAction with the attempt number recorded one too low.
invokeAction_AttemptsOffByOne(s, a) ==
    Log([s EXCEPT !.attempt = a, !.stepResult.attempts = a - 1, !.pc = "action"],
        [kind |-> "action", step |-> s.i, attempt |-> a, input |-> s.execution.context])

\* One turn of executeStep's loop: the attempt number is recorded and the
\* action is invoked under executeWithTimeout.
invokeAction(s, a) ==
    Log([s EXCEPT !.attempt = a, !.stepResult.attempts = a, !.pc = "action"],
        [kind |-> "action", step |-> s.i, attempt |-> a, input |-> s.execution.context])

\* attemptLoop with the loop condition attempt < maxAttempts.
attemptLoop_StrictBound(s, a) ==
    IF a < retryPolicy(CurrentStep(s)).maxAttempts
    THEN invokeAction(s, a)
    ELSE stepReturned([s EXCEPT !.stepResult.status = "FAILED",
                                !.stepResult.completedAt = TRUE])

\* The head of executeStep's for loop at attempt a; below the loop the result
\* is marked FAILED and returned.
attemptLoop(s, a) ==
    IF a <= retryPolicy(CurrentStep(s)).maxAttempts
    THEN invokeAction(s, a)
    ELSE stepReturned([s EXCEPT !.stepResult.status = "FAILED",
                                !.stepResult.completedAt = TRUE])

\* executeStep from its first line to its first await (or to its return when
\* the loop body never runs).
executeStep(s) ==
    LET s1 == [s EXCEPT !.stepResult =
                   [stepId |-> CurrentStep(s).id, status |-> "SUCCESS",
                    input |-> s.execution.context, output |-> NoValue,
                    error |-> NoError, completedAt |-> FALSE, attempts |-> 0]]
    IN attemptLoop(s1, 1)

\* The head of executeSteps' for loop at index idx.
executeStepsLoop(s, idx) ==
    IF idx < s.definition.nSteps
    THEN executeStep([s EXCEPT !.i = idx, !.execution.currentStep = idx])
    ELSE stepsReturned([s EXCEPT !.i = idx], "COMPLETED", NoError)

\* The head of executeSteps: status RUNNING and the store update.
executeSteps(s) ==
    LET s1 == [s EXCEPT !.execution.status = "RUNNING", !.pc = "updateRunning"]
    IN Log(s1, StoreCall(s1, "updateExecution"))

\* attemptSucceeded without the action's output saved in the result.
attemptSucceeded_OutputDropped(s) ==
    stepReturned([s EXCEPT !.stepResult.completedAt = TRUE,
                           !.stepResult.status = "SUCCESS"])

\* The attempt succeeded.
attemptSucceeded(s) ==
    stepReturned([s EXCEPT !.stepResult.output = Output(s.i, s.attempt),
                           !.stepResult.completedAt = TRUE,
                           !.stepResult.status = "SUCCESS"])

\* attemptFailed rethrowing the error of the last attempt instead of returning
\* the FAILED result.
attemptFailed_Rethrows(s, err) ==
    LET s1 == [s EXCEPT !.stepResult.error = err]
        policy == retryPolicy(CurrentStep(s))
    IN IF s.attempt = policy.maxAttempts
       THEN catch(s1, err)
       ELSE Log([s1 EXCEPT !.pc = "sleep"],
                [kind |-> "sleep", step |-> s.i, attempt |-> s.attempt,
                 ms |-> backoffDelay(policy, s.attempt)])

\* attemptFailed letting a timeout on the last attempt pass: the result is
\* returned as it stands, without the FAILED status.
attemptFailed_TimeoutPasses(s, err) ==
    LET s1 == [s EXCEPT !.stepResult.error = err]
        policy == retryPolicy(CurrentStep(s))
    IN IF s.attempt = policy.maxAttempts
       THEN IF err[1] = "timeout"
            THEN stepReturned([s1 EXCEPT !.stepResult.completedAt = TRUE])
            ELSE stepReturned([s1 EXCEPT !.stepResult.status = "FAILED",
                                         !.stepResult.completedAt = TRUE])
       ELSE Log([s1 EXCEPT !.pc = "sleep"],
                [kind |-> "sleep", step |-> s.i, attempt |-> s.attempt,
                 ms |-> backoffDelay(policy, s.attempt)])

\* The catch block of executeStep's loop body.
attemptFailed(s, err) ==
    LET s1 == [s EXCEPT !.stepResult.error = err]
        policy == retryPolicy(CurrentStep(s))
    IN IF s.attempt = policy.maxAttempts
       THEN stepReturned([s1 EXCEPT !.stepResult.status = "FAILED",
                                    !.stepResult.completedAt = TRUE])
       ELSE Log([s1 EXCEPT !.pc = "sleep"],
                [kind |-> "sleep", step |-> s.i, attempt |-> s.attempt,
                 ms |-> backoffDelay(policy, s.attempt)])

\* ------------------------------------------------------------------------
\* Actions

Timeouts == Cardinality({k \in 1..Len(trace) : trace[k].kind = "timeout"})

\* No executeSaga call has been made.
SagaIdle ==
    /\ definition = NoDefinition
    /\ execution = NoExecution
    /\ pc = "idle"
    /\ i = 0
    /\ attempt = 0
    /\ stepResult = NoStepResult
    /\ completedSteps = <<>>
    /\ failureError = NoError
    /\ abandoned = {}
    /\ thrown = NoError
    /\ trace = <<>>

\* A TransactionalOutbox as its constructor leaves it, over an empty store.
OutboxIdle ==
    /\ isRunning = FALSE
    /\ poller = FALSE
    /\ timers = 0
    /\ outboxStore = <<>>
    /\ sweeps = <<>>
    /\ storeEventCalls = <<>>
    /\ calls = <<>>
    /\ transactions = <<>>

\* getTopicForEvent has not been called.
TopicIdle ==
    /\ topicEventType = <<>>
    /\ topic = <<>>

\* An IdempotencyMiddleware over an empty store, no request made.
IdempotencyIdle ==
    /\ idempotencyStore = {}
    /\ now = 0
    /\ requests = <<>>

Init ==
    /\ SagaIdle
    /\ OutboxIdle
    /\ TopicIdle
    /\ IdempotencyIdle
    /\ maxRetries = defaultMaxRetries
    /\ liveObjects = FALSE

\* executeSaga(definition, context) up to await store.saveExecution.
ExecuteSaga ==
    /\ pc = "idle"
    /\ \E n \in 1..MaxSteps, ctx \in Contexts :
          LET s1 == [Cur EXCEPT !.definition = [NoDefinition EXCEPT !.nSteps = n,
                                                   !.ids = [k \in 1..n |-> k - 1]],
                                !.execution = [status |-> "PENDING", currentStep |-> NoStep,
                                               context |-> ctx, completedAt |-> FALSE,
                                               error |-> NoError, stepResults |-> <<>>],
                                !.pc = "saveExecution"]
          IN Set(Log(s1, StoreCall(s1, "saveExecution")))

\* A store call throws into executeSaga's try block.
StoreThrew(at) ==
    /\ pc = at
    /\ Set(catch(Log(Cur, [kind |-> "storeThrew", error |-> StoreError(Len(trace))]),
                 StoreError(Len(trace))))

\* The definition as the loop turn at idx reads it: steps[idx].retryPolicy, or
\* onSuccess once idx has reached steps.length.
ReadStep(s, idx, policy, hook) ==
    IF idx < s.definition.nSteps
    THEN [s EXCEPT !.definition.retryPolicy = Append(@, policy)]
    ELSE [s EXCEPT !.definition.onSuccess = <<hook>>]

\* What the sweep may still read of the definition: the compensations of the
\* steps of the entries in todo, and onFailure.
SweepReads(s, todo) ==
    [compensation :
        [{FindStep(s.definition, s.execution.stepResults[todo[m]].stepId) :
             m \in 1..Len(todo)} \ {0} -> BOOLEAN],
     onFailure : BOOLEAN]

SaveExecutionSettled ==
    \/ /\ pc = "saveExecution"
       /\ Set(executeSteps(Log(Cur, [kind |-> "stored"])))
    \/ StoreThrew("saveExecution")

UpdateRunningSettled ==
    \/ /\ pc = "updateRunning"
       /\ \E policy \in OptionalRetryPolicies, hook \in BOOLEAN :
             Set(executeStepsLoop(ReadStep(Log(Cur, [kind |-> "stored"]), 0, policy, hook), 0))
    \/ StoreThrew("updateRunning")

UpdateStepSettled ==
    \/ /\ pc = "updateStep"
       /\ \E policy \in OptionalRetryPolicies, hook \in BOOLEAN :
             Set(executeStepsLoop(ReadStep(Log(Cur, [kind |-> "stored"]), i + 1, policy, hook),
                                  i + 1))
    \/ StoreThrew("updateStep")

UpdateCompensatingSettled ==
    \/ /\ pc = "updateCompensating"
       /\ \E d \in SweepReads(Cur, CompletedSteps(execution.stepResults)) :
             Set(compensateLoop(
                    [Log(Cur, [kind |-> "stored"])
                        EXCEPT !.completedSteps = CompletedSteps(execution.stepResults)], d))
    \/ StoreThrew("updateCompensating")

UpdateFinalSettled ==
    \/ /\ pc = "updateFinal"
       /\ Set([Log(Cur, [kind |-> "stored"]) EXCEPT !.pc = "returned"])
    \/ StoreThrew("updateFinal")

\* The store update of the catch block settles; executeSaga throws either way.
UpdateFailedSettled ==
    /\ pc = "updateFailed"
    /\ \/ Set([Log(Cur, [kind |-> "stored"]) EXCEPT !.pc = "thrown",
                                                     !.thrown = execution.error])
       \/ Set([Log(Cur, [kind |-> "storeThrew", error |-> StoreError(Len(trace))])
                  EXCEPT !.pc = "thrown", !.thrown = StoreError(Len(trace))])

\* executeWithTimeout settles: the action resolved, the action rejected, or
\* the timer fired first (the action stays in flight).
ActionResolved ==
    /\ pc = "action"
    /\ Set(attemptSucceeded(Log(Cur, [kind |-> "resolved", step |-> i, attempt |-> attempt])))

ActionRejected ==
    /\ pc = "action"
    /\ Set(attemptFailed(Log(Cur, [kind |-> "rejected", step |-> i, attempt |-> attempt]),
                         ActionError(i, attempt)))

ActionTimedOut ==
    /\ pc = "action"
    /\ Timeouts < MaxTimeouts
    /\ Set(attemptFailed(
              Log([Cur EXCEPT !.abandoned = @ \cup {<<i, attempt>>}],
                  [kind |-> "timeout", step |-> i, attempt |-> attempt]),
              TimeoutError(i, attempt)))

\* LateSettle with the late resolution written to the step's result.
LateSettle_Resolves ==
    /\ \E x \in abandoned :
          /\ abandoned' = abandoned \ {x}
          /\ stepResult' = [stepResult EXCEPT !.output = Output(x[1], x[2]),
                                              !.status = "SUCCESS"]
    /\ UNCHANGED <<definition, execution, pc, i, attempt, completedSteps,
                   failureError, thrown, trace>>
    /\ UNCHANGED notSagaVars

\* An abandoned action settles after its timeout: clearTimeout, resolve and
\* reject no longer have any effect.
LateSettle ==
    /\ \E x \in abandoned : abandoned' = abandoned \ {x}
    /\ UNCHANGED <<definition, execution, pc, i, attempt, stepResult, completedSteps,
                   failureError, thrown, trace>>
    /\ UNCHANGED notSagaVars

\* The backoff sleep ends: the loop's next turn.
SleepDone ==
    /\ pc = "sleep"
    /\ Set(attemptLoop(Cur, attempt + 1))

\* The awaited compensation settles.
CompensationResolved ==
    /\ pc = "compensation"
    /\ \E d \in SweepReads(Cur, Tail(completedSteps)) :
          Set(compensateLoop(
                 Log([Cur EXCEPT !.execution.stepResults[Head(completedSteps)].status =
                                     "COMPENSATED",
                                 !.completedSteps = Tail(@)],
                     [kind |-> "compensated",
                      step |-> execution.stepResults[Head(completedSteps)].stepId]), d))

CompensationRejected ==
    /\ pc = "compensation"
    /\ \E d \in SweepReads(Cur, Tail(completedSteps)) :
          Set(compensateLoop(
                 Log([Cur EXCEPT !.completedSteps = Tail(@)],
                     [kind |-> "compensationThrew",
                      step |-> execution.stepResults[Head(completedSteps)].stepId]), d))

\* The awaited hook settles.
OnSuccessSettled ==
    /\ pc = "onSuccess"
    /\ \/ LET s1 == [Cur EXCEPT !.pc = "updateFinal"]
          IN Set(Log(s1, StoreCall(s1, "updateExecution")))
       \/ Set(catch(Log(Cur, [kind |-> "hookThrew", hook |-> "onSuccess", error |-> HookError(Len(trace))]),
                    HookError(Len(trace))))

OnFailureSettled ==
    /\ pc = "onFailure"
    /\ \/ LET s1 == [Cur EXCEPT !.pc = "updateFinal"]
          IN Set(Log(s1, StoreCall(s1, "updateExecution")))
       \/ Set(catch(Log(Cur, [kind |-> "hookThrew", hook |-> "onFailure", error |-> HookError(Len(trace))]),
                    HookError(Len(trace))))

Next ==
    \/ ExecuteSaga
    \/ SaveExecutionSettled
    \/ UpdateRunningSettled
    \/ UpdateStepSettled
    \/ UpdateCompensatingSettled
    \/ UpdateFinalSettled
    \/ UpdateFailedSettled
    \/ ActionResolved
    \/ ActionRejected
    \/ ActionTimedOut
    \/ LateSettle
    \/ SleepDone
    \/ CompensationResolved
    \/ CompensationRejected
    \/ OnSuccessSettled
    \/ OnFailureSettled

Spec == Init /\ [][Next]_vars

\* What timers and awaited store calls and hooks bring about: a store call or a
\* hook returns or throws, an action settles or its timer (setTimeout in
\* executeWithTimeout) fires, a backoff timer (sleep) fires. A compensation is
\* awaited bare, without a timer, and an abandoned action has no one waiting
\* for it: neither is bound to settle.
Progress ==
    \/ ExecuteSaga
    \/ SaveExecutionSettled
    \/ UpdateRunningSettled
    \/ UpdateStepSettled
    \/ UpdateCompensatingSettled
    \/ UpdateFinalSettled
    \/ UpdateFailedSettled
    \/ ActionResolved
    \/ ActionRejected
    \/ ActionTimedOut
    \/ SleepDone
    \/ OnSuccessSettled
    \/ OnFailureSettled

\* The engine under the assumption that timers fire and store calls and hooks
\* return.
LiveSpec == Spec /\ WF_vars(Progress)

\* ------------------------------------------------------------------------
\* TransactionalOutbox.  An event is known by its place in outboxStore. A
\* sweep is one processPendingEvents call: pc is the await it is suspended at,
\* pendingEvents the array it fetched, k the place of the event of the current
\* loop turn, error the message of the error processEvent caught.

OutboxCur == [outboxStore |-> outboxStore, sweeps |-> sweeps, calls |-> calls]

OutboxSet(o) ==
    /\ outboxStore' = o.outboxStore
    /\ sweeps' = o.sweeps
    /\ calls' = o.calls

\* The event of sweep w's current loop turn.
CurrentEvent(o, w) == o.sweeps[w].pendingEvents[o.sweeps[w].k]

\* event.retryCount as processEvent reads it: the field of the store's own
\* object, or of the copy the sweep was handed.
RetryCount(o, w) ==
    IF liveObjects THEN o.outboxStore[CurrentEvent(o, w).id].retryCount
    ELSE CurrentEvent(o, w).retryCount

\* event.retryCount++
IncrementRetryCount(o, w) ==
    IF liveObjects
    THEN [o EXCEPT !.outboxStore[CurrentEvent(o, w).id].retryCount = @ + 1]
    ELSE [o EXCEPT !.sweeps[w].pendingEvents[o.sweeps[w].k].retryCount = @ + 1]

\* store.getPendingEvents(): the PENDING events, in the order they were saved.
RECURSIVE getPendingEvents(_, _)
getPendingEvents(events, n) ==
    IF n > Len(events) THEN <<>>
    ELSE IF events[n].status = "PENDING"
         THEN <<[id |-> n, retryCount |-> events[n].retryCount]>>
                  \o getPendingEvents(events, n + 1)
         ELSE getPendingEvents(events, n + 1)

\* store.markEventPublished(id) and store.markEventFailed(id, error).
markEventPublished(events, id) ==
    [events EXCEPT ![id].status = "PUBLISHED"]

markEventFailed(events, id, error) ==
    [events EXCEPT ![id].status = "FAILED", ![id].error = error]

\* processEvent with the test event.retryCount > this.maxRetries.
processEvent_StrictTest(o, w) ==
    LET id == CurrentEvent(o, w).id
        rc == RetryCount(o, w)
    IN IF rc > maxRetries
       THEN [o EXCEPT !.sweeps[w].pc = "markMaxRetries",
                      !.calls[id].maxRetriesMarks = @ + 1]
       ELSE [o EXCEPT !.sweeps[w].pc = "publish",
                      !.calls[id].publish = @ + 1,
                      !.calls[id].retryCounts = @ \cup {rc}]

\* processEvent from its first line to its first await: the retry cap is
\* tested, then either markEventFailed or broker.publish is called.
processEvent(o, w) ==
    LET id == CurrentEvent(o, w).id
        rc == RetryCount(o, w)
    IN IF rc >= maxRetries
       THEN [o EXCEPT !.sweeps[w].pc = "markMaxRetries",
                      !.calls[id].maxRetriesMarks = @ + 1]
       ELSE [o EXCEPT !.sweeps[w].pc = "publish",
                      !.calls[id].publish = @ + 1,
                      !.calls[id].retryCounts = @ \cup {rc}]

\* processPendingEventsLoop going on at the place after n.
processPendingEventsLoop_SkipsOne(o, w, n) ==
    IF n + 1 > Len(o.sweeps[w].pendingEvents)
    THEN [o EXCEPT !.sweeps[w].pc = "done", !.sweeps[w].k = n + 1,
                   !.sweeps[w].outcome = "resolved"]
    ELSE processEvent([o EXCEPT !.sweeps[w].k = n + 1], w)

\* The for loop of processPendingEvents at place n of pendingEvents.
processPendingEventsLoop(o, w, n) ==
    IF n > Len(o.sweeps[w].pendingEvents)
    THEN [o EXCEPT !.sweeps[w].pc = "done", !.sweeps[w].k = n,
                   !.sweeps[w].outcome = "resolved"]
    ELSE processEvent([o EXCEPT !.sweeps[w].k = n], w)

\* The catch block of processEvent up to its await.
processEventCatch(o, w, message) ==
    [IncrementRetryCount(o, w) EXCEPT !.sweeps[w].pc = "markEventFailed",
                                      !.sweeps[w].error = message]

\* processPendingEventsCatch rethrowing what it caught.
processPendingEventsCatch_Rethrows(o, w) ==
    [o EXCEPT !.sweeps[w].pc = "done", !.sweeps[w].aborted = TRUE,
              !.sweeps[w].outcome = "rejected"]

\* The catch block of processPendingEvents: the sweep ends where it stands,
\* the error is logged and the call resolves.
processPendingEventsCatch(o, w) ==
    [o EXCEPT !.sweeps[w].pc = "done", !.sweeps[w].aborted = TRUE,
              !.sweeps[w].outcome = "resolved"]

\* processPendingEvents up to await store.getPendingEvents(), called by the
\* timer's callback or by processNow (by); outcome is how the call settles.
processPendingEvents(o, by) ==
    [o EXCEPT !.sweeps = Append(@, [pc |-> "getPendingEvents", pendingEvents |-> <<>>,
                                    k |-> 0, error |-> "", aborted |-> FALSE,
                                    by |-> by, outcome |-> "pending"])]

\* uuidv4(): an id no event has yet. The events are known by their place in
\* the store, and the id is that place.
uuidv4(events) == Len(events) + 1

\* The event of storeEvent with sagaId and stepId exchanged.
OutboxEventOf_IdsExchanged(eventId, sagaId, stepId, eventType, payload) ==
    [id |-> eventId, sagaId |-> stepId, stepId |-> sagaId, eventType |-> eventType,
     payload |-> payload, status |-> "PENDING", retryCount |-> 0, error |-> ""]

\* The event storeEvent builds.
OutboxEventOf(eventId, sagaId, stepId, eventType, payload) ==
    [id |-> eventId, sagaId |-> sagaId, stepId |-> stepId, eventType |-> eventType,
     payload |-> payload, status |-> "PENDING", retryCount |-> 0, error |-> ""]

\* store.saveEvent(event)
saveEvent(events, event) == Append(events, event)

\* storeEvent(sagaId, stepId, eventType, payload): the event is saved and its
\* id returned, or saveEvent throws, nothing is saved and storeEvent throws.
StoreEvent ==
    /\ Len(storeEventCalls) < MaxEvents
    /\ \E sagaId \in SagaIds, stepId \in StepIds, eventType \in EventTypes,
          payload \in Payloads :
          LET eventId == uuidv4(outboxStore)
              call == [sagaId |-> sagaId, stepId |-> stepId, eventType |-> eventType,
                       payload |-> payload]
          IN \/ /\ outboxStore' =
                      saveEvent(outboxStore,
                                OutboxEventOf(eventId, sagaId, stepId, eventType, payload))
                /\ calls' = Append(calls, NoCalls)
                /\ storeEventCalls' =
                      Append(storeEventCalls,
                             call @@ [returned |-> <<eventId>>, thrown |-> FALSE])
             \/ /\ storeEventCalls' =
                      Append(storeEventCalls,
                             call @@ [returned |-> <<>>, thrown |-> TRUE])
                /\ UNCHANGED <<outboxStore, calls>>
    /\ UNCHANGED <<maxRetries, liveObjects, isRunning, poller, timers, sweeps>>
    /\ UNCHANGED notOutboxVars

\* isRunning, poller and the timers that are set.
Lifecycle == [isRunning |-> isRunning, poller |-> poller, timers |-> timers]

SetLifecycle(o) ==
    /\ isRunning' = o.isRunning
    /\ poller' = o.poller
    /\ timers' = o.timers

\* start() without the isRunning guard.
start_NoGuard(o) ==
    [o EXCEPT !.isRunning = TRUE, !.poller = TRUE, !.timers = @ + 1]

\* start(): nothing when already running; else isRunning and a new interval
\* timer, kept in poller.
start(o) ==
    IF o.isRunning THEN o
    ELSE [o EXCEPT !.isRunning = TRUE, !.poller = TRUE, !.timers = @ + 1]

\* stop() without the clearInterval.
stop_KeepsTimer(o) ==
    IF ~o.isRunning THEN o
    ELSE [o EXCEPT !.isRunning = FALSE, !.poller = FALSE]

\* stop(): nothing when not running; else clearInterval(this.poller).
stop(o) ==
    IF ~o.isRunning THEN o
    ELSE [o EXCEPT !.isRunning = FALSE,
                   !.timers = IF o.poller THEN @ - 1 ELSE @,
                   !.poller = FALSE]

Start ==
    /\ SetLifecycle(start(Lifecycle))
    /\ UNCHANGED <<maxRetries, liveObjects, outboxStore, sweeps, storeEventCalls, calls>>
    /\ UNCHANGED notOutboxVars

Stop ==
    /\ SetLifecycle(stop(Lifecycle))
    /\ UNCHANGED <<maxRetries, liveObjects, outboxStore, sweeps, storeEventCalls, calls>>
    /\ UNCHANGED notOutboxVars

\* An interval timer fires: its callback calls processPendingEvents.
Tick ==
    /\ timers > 0
    /\ Len(sweeps) < MaxSweeps
    /\ OutboxSet(processPendingEvents(OutboxCur, "timer"))
    /\ UNCHANGED <<maxRetries, liveObjects, isRunning, poller, timers, storeEventCalls>>
    /\ UNCHANGED notOutboxVars

\* processNow()
ProcessNow ==
    /\ Len(sweeps) < MaxSweeps
    /\ OutboxSet(processPendingEvents(OutboxCur, "processNow"))
    /\ UNCHANGED <<maxRetries, liveObjects, isRunning, poller, timers, storeEventCalls>>
    /\ UNCHANGED notOutboxVars

\* store.getPendingEvents() settles.
GetPendingEventsSettled ==
    /\ \E w \in 1..Len(sweeps) :
          /\ sweeps[w].pc = "getPendingEvents"
          /\ \/ LET o == [OutboxCur EXCEPT !.sweeps[w].pendingEvents =
                                                getPendingEvents(outboxStore, 1)]
                IN OutboxSet(processPendingEventsLoop(o, w, 1))
             \/ OutboxSet(processPendingEventsCatch(OutboxCur, w))
    /\ UNCHANGED <<maxRetries, liveObjects, isRunning, poller, timers, storeEventCalls>>
    /\ UNCHANGED notOutboxVars

\* store.markEventFailed(id, 'Max retries exceeded') settles.
MarkMaxRetriesSettled ==
    /\ \E w \in 1..Len(sweeps) :
          /\ sweeps[w].pc = "markMaxRetries"
          /\ \/ LET id == CurrentEvent(OutboxCur, w).id
                    o == [OutboxCur EXCEPT !.outboxStore =
                                               markEventFailed(@, id, MaxRetriesMessage)]
                IN OutboxSet(processPendingEventsLoop(o, w, sweeps[w].k + 1))
             \/ OutboxSet(processEventCatch(OutboxCur, w, StoreErrorMessage))
    /\ UNCHANGED <<maxRetries, liveObjects, isRunning, poller, timers, storeEventCalls>>
    /\ UNCHANGED notOutboxVars

\* messageBroker.publish settles.
PublishSettled ==
    /\ \E w \in 1..Len(sweeps) :
          /\ sweeps[w].pc = "publish"
          /\ LET id == CurrentEvent(OutboxCur, w).id
             IN \/ OutboxSet([OutboxCur EXCEPT !.sweeps[w].pc = "markEventPublished",
                                               !.calls[id].accepted = @ + 1,
                                               !.calls[id].markEventPublished = @ + 1])
                \/ OutboxSet(processEventCatch(
                                [OutboxCur EXCEPT !.calls[id].rejected = @ + 1],
                                w, PublishErrorMessage))
    /\ UNCHANGED <<maxRetries, liveObjects, isRunning, poller, timers, storeEventCalls>>
    /\ UNCHANGED notOutboxVars

\* store.markEventPublished(id) settles.
MarkEventPublishedSettled ==
    /\ \E w \in 1..Len(sweeps) :
          /\ sweeps[w].pc = "markEventPublished"
          /\ \/ LET id == CurrentEvent(OutboxCur, w).id
                    o == [OutboxCur EXCEPT !.outboxStore = markEventPublished(@, id)]
                IN OutboxSet(processPendingEventsLoop(o, w, sweeps[w].k + 1))
             \/ OutboxSet(processEventCatch(OutboxCur, w, StoreErrorMessage))
    /\ UNCHANGED <<maxRetries, liveObjects, isRunning, poller, timers, storeEventCalls>>
    /\ UNCHANGED notOutboxVars

\* store.markEventFailed(id, error.message) of the catch block settles: when
\* it throws, processEvent throws into the loop of processPendingEvents.
MarkEventFailedSettled ==
    /\ \E w \in 1..Len(sweeps) :
          /\ sweeps[w].pc = "markEventFailed"
          /\ \/ LET id == CurrentEvent(OutboxCur, w).id
                    o == [OutboxCur EXCEPT !.outboxStore =
                                               markEventFailed(@, id, sweeps[w].error)]
                IN OutboxSet(processPendingEventsLoop(o, w, sweeps[w].k + 1))
             \/ OutboxSet(processPendingEventsCatch(OutboxCur, w))
    /\ UNCHANGED <<maxRetries, liveObjects, isRunning, poller, timers, storeEventCalls>>
    /\ UNCHANGED notOutboxVars

OutboxInit ==
    /\ SagaIdle
    /\ OutboxIdle
    /\ TopicIdle
    /\ IdempotencyIdle
    /\ maxRetries \in MaxRetriesChoices
    /\ liveObjects \in BOOLEAN

OutboxNext ==
    \/ StoreEvent
    \/ Start
    \/ Stop
    \/ Tick
    \/ ProcessNow
    \/ GetPendingEventsSettled
    \/ MarkMaxRetriesSettled
    \/ PublishSettled
    \/ MarkEventPublishedSettled
    \/ MarkEventFailedSettled

OutboxSpec == OutboxInit /\ [][OutboxNext]_vars

\* ------------------------------------------------------------------------
\* OutboxTransaction.execute.  A transaction is one execute call: pc is the
\* await it is suspended at, eventData its argument, business whether
\* businessLogic has resolved (its writes are done), stored the id of the
\* event its storeEvent call saved.

\* execute(businessLogic, eventData) up to await businessLogic().
Execute ==
    /\ Len(transactions) < MaxEvents
    /\ \E sagaId \in SagaIds, stepId \in StepIds, eventType \in EventTypes,
          payload \in Payloads :
          transactions' =
             Append(transactions,
                    [pc |-> "businessLogic", business |-> FALSE, stored |-> <<>>,
                     eventData |-> [sagaId |-> sagaId, stepId |-> stepId,
                                    eventType |-> eventType, payload |-> payload]])
    /\ UNCHANGED <<sagaVars, outboxVars, topicVars, idempotencyVars>>

\* businessLogic() settles: on success storeEvent is called, on failure the
\* catch block rethrows.
BusinessLogicSettled ==
    /\ \E x \in 1..Len(transactions) :
          /\ transactions[x].pc = "businessLogic"
          /\ \/ transactions' = [transactions EXCEPT ![x].pc = "storeEvent",
                                                     ![x].business = TRUE]
             \/ transactions' = [transactions EXCEPT ![x].pc = "thrown"]
    /\ UNCHANGED <<sagaVars, outboxVars, topicVars, idempotencyVars>>

\* The storeEvent call of execute settles: the event is saved and execute
\* returns the result of businessLogic, or saveEvent throws and the catch
\* block rethrows.
TransactionStoreEventSettled ==
    /\ \E x \in 1..Len(transactions) :
          /\ transactions[x].pc = "storeEvent"
          /\ LET data == transactions[x].eventData
                 eventId == uuidv4(outboxStore)
             IN \/ /\ outboxStore' =
                         saveEvent(outboxStore,
                                   OutboxEventOf(eventId, data.sagaId, data.stepId,
                                                 data.eventType, data.payload))
                   /\ calls' = Append(calls, NoCalls)
                   /\ storeEventCalls' =
                         Append(storeEventCalls,
                                data @@ [returned |-> <<eventId>>, thrown |-> FALSE])
                   /\ transactions' = [transactions EXCEPT ![x].pc = "returned",
                                                           ![x].stored = <<eventId>>]
                \/ /\ storeEventCalls' =
                         Append(storeEventCalls,
                                data @@ [returned |-> <<>>, thrown |-> TRUE])
                   /\ transactions' = [transactions EXCEPT ![x].pc = "thrown"]
                   /\ UNCHANGED <<outboxStore, calls>>
    /\ UNCHANGED <<maxRetries, liveObjects, isRunning, poller, timers, sweeps>>
    /\ UNCHANGED <<sagaVars, topicVars, idempotencyVars>>

TransactionNext ==
    \/ StoreEvent
    \/ Execute
    \/ BusinessLogicSettled
    \/ TransactionStoreEventSettled

TransactionSpec == Init /\ [][TransactionNext]_vars

\* ------------------------------------------------------------------------
\* TransactionalOutbox.getTopicForEvent.  A string is the sequence of its
\* characters.

\* The letters of the model, upper-case and lower-case in the same order.
UpperCase == <<"A", "B", "C", "P">>
LowerCase == <<"a", "b", "c", "p">>

IsUpper(c) == \E n \in 1..Len(UpperCase) : UpperCase[n] = c

\* One character of String.prototype.toLowerCase.
ToLower(c) ==
    IF IsUpper(c)
    THEN LowerCase[CHOOSE n \in 1..Len(UpperCase) : UpperCase[n] = c]
    ELSE c

\* .replace(/([A-Z])/g, '.$1')
RECURSIVE ReplaceUpper(_)
ReplaceUpper(str) ==
    IF str = <<>> THEN <<>>
    ELSE IF IsUpper(Head(str)) THEN <<".", Head(str)>> \o ReplaceUpper(Tail(str))
    ELSE <<Head(str)>> \o ReplaceUpper(Tail(str))

\* .toLowerCase()
toLowerCase(str) == [n \in 1..Len(str) |-> ToLower(str[n])]

\* ReplaceLeadingDot leaving the string as it is.
ReplaceLeadingDot_Kept(str) == str

\* .replace(/^\./, '')
ReplaceLeadingDot(str) ==
    IF str # <<>> /\ Head(str) = "." THEN Tail(str) ELSE str

getTopicForEvent(type) == ReplaceLeadingDot(toLowerCase(ReplaceUpper(type)))

PaymentProcessed ==
    <<"P", "a", "y", "m", "e", "n", "t", "P", "r", "o", "c", "e", "s", "s", "e", "d">>

Created == <<"C", "r", "e", "a", "t", "e", "d">>

\* The event types getTopicForEvent is given: every string of up to MaxLen
\* of the letters A, B, a, b, and the two event types above.
EventTypeStrings ==
    UNION {[1..n -> {"A", "B", "a", "b"}] : n \in 0..MaxLen}
        \cup {PaymentProcessed, Created}

TopicInit ==
    /\ SagaIdle
    /\ OutboxIdle
    /\ IdempotencyIdle
    /\ maxRetries = defaultMaxRetries
    /\ liveObjects = FALSE
    /\ topicEventType \in EventTypeStrings
    /\ topic = <<>>

GetTopicForEvent ==
    /\ topic = <<>>
    /\ topic' = <<getTopicForEvent(topicEventType)>>
    /\ UNCHANGED <<topicEventType, sagaVars, outboxVars, transactionVars, idempotencyVars>>

TopicNext == GetTopicForEvent

TopicSpec == TopicInit /\ [][TopicNext]_vars

\* ------------------------------------------------------------------------
\* IdempotencyMiddleware.middleware.  A request is one call of the middleware
\* function: key is its idempotency key header, pc the await it is suspended
\* at, existingKey what store.get returned, expiresAt what it passes to
\* store.set, status the response status it sent (0: none), next the number
\* of its next() calls, gets and sets the store calls it made, threw whether
\* a store call of it threw, overlapped whether another request was in
\* flight while it was.

\* store.get(key): the entry of the key while it has not expired, else null.
get(store, key, clock) == {e \in store : e.key = key /\ clock < e.expiresAt}

\* store.set(key, expiresAt)
set(store, key, expiresAt) ==
    {e \in store : e.key # key} \cup {[key |-> key, expiresAt |-> expiresAt]}

\* The middleware function up to its first await: without a key it calls
\* next() and returns.
middleware(key, overlapped) ==
    LET req == [key |-> key, pc |-> "done", existingKey |-> {}, expiresAt |-> 0,
                status |-> 0, next |-> 0, gets |-> 0, sets |-> 0, threw |-> FALSE,
                overlapped |-> overlapped]
    IN IF key = <<>>
       THEN [req EXCEPT !.next = 1]
       ELSE [req EXCEPT !.pc = "get", !.gets = 1]

\* afterGet calling next() for a key that was found.
afterGet_NextOnFound(req, existingKey, clock) ==
    IF existingKey # {}
    THEN [req EXCEPT !.existingKey = existingKey, !.next = @ + 1, !.pc = "done"]
    ELSE [req EXCEPT !.existingKey = existingKey,
                     !.expiresAt = clock + defaultKeyExpiryHours,
                     !.sets = @ + 1, !.pc = "set"]

\* store.get has returned existingKey: 409 when there is one, else the expiry
\* is computed and store.set is called.
afterGet(req, existingKey, clock) ==
    IF existingKey # {}
    THEN [req EXCEPT !.existingKey = existingKey, !.status = 409, !.pc = "done"]
    ELSE [req EXCEPT !.existingKey = existingKey,
                     !.expiresAt = clock + defaultKeyExpiryHours,
                     !.sets = @ + 1, !.pc = "set"]

\* store.set has returned: next().
afterSet(req) == [req EXCEPT !.next = @ + 1, !.pc = "done"]

\* middlewareCatch answering with an error instead of calling next().
middlewareCatch_Rejects(req) == [req EXCEPT !.threw = TRUE, !.status = 500, !.pc = "done"]

\* The catch block: the error is logged and next() is called.
middlewareCatch(req) == [req EXCEPT !.threw = TRUE, !.next = @ + 1, !.pc = "done"]

\* A request arrives.
Request ==
    /\ Len(requests) < MaxRequests
    /\ \E key \in IdempotencyKeys :
          LET busy == \E r \in 1..Len(requests) : requests[r].pc # "done"
              req == middleware(key, busy /\ key # <<>>)
          IN requests' =
                Append([r \in 1..Len(requests) |->
                           IF requests[r].pc # "done" /\ req.pc # "done"
                           THEN [requests[r] EXCEPT !.overlapped = TRUE]
                           ELSE requests[r]],
                       req)
    /\ UNCHANGED <<idempotencyStore, now>>
    /\ UNCHANGED <<sagaVars, outboxVars, transactionVars, topicVars>>

\* store.get settles.
GetSettled ==
    /\ \E r \in 1..Len(requests) :
          /\ requests[r].pc = "get"
          /\ \/ requests' =
                   [requests EXCEPT
                       ![r] = afterGet(@, get(idempotencyStore, requests[r].key[1], now),
                                       now)]
             \/ requests' = [requests EXCEPT ![r] = middlewareCatch(@)]
    /\ UNCHANGED <<idempotencyStore, now>>
    /\ UNCHANGED <<sagaVars, outboxVars, transactionVars, topicVars>>

\* store.set settles.
SetSettled ==
    /\ \E r \in 1..Len(requests) :
          /\ requests[r].pc = "set"
          /\ \/ /\ idempotencyStore' =
                      set(idempotencyStore, requests[r].key[1], requests[r].expiresAt)
                /\ requests' = [requests EXCEPT ![r] = afterSet(@)]
             \/ /\ requests' = [requests EXCEPT ![r] = middlewareCatch(@)]
                /\ UNCHANGED idempotencyStore
    /\ UNCHANGED now
    /\ UNCHANGED <<sagaVars, outboxVars, transactionVars, topicVars>>

\* Half the expiry time of a key passes.
ClockAdvance ==
    /\ now < MaxClock
    /\ now' = now + defaultKeyExpiryHours \div 2
    /\ UNCHANGED <<idempotencyStore, requests>>
    /\ UNCHANGED <<sagaVars, outboxVars, transactionVars, topicVars>>

IdempotencyNext ==
    \/ Request
    \/ GetSettled
    \/ SetSettled
    \/ ClockAdvance

IdempotencySpec == Init /\ [][IdempotencyNext]_vars

\* ------------------------------------------------------------------------
\* Properties

TerminalStatuses == {"COMPLETED", "COMPENSATED", "FAILED"}

\* executeSaga has returned or thrown.
Settled == pc \in {"returned", "thrown"}

Events(kind) == {k \in 1..Len(trace) : trace[k].kind = kind}

Results == execution.stepResults

\* No store call and no hook has failed so far.
NoStoreFailure == Events("storeThrew") = {}
NoHookFailure == Events("hookThrew") = {}

\* The steps whose action has succeeded.
SucceededSteps == {trace[k].step : k \in Events("resolved")}

\* C1: once the execution has a terminal status, either every step of the
\* definition has a SUCCESS result, or every step whose action succeeded has a
\* COMPENSATED result.
C1_AllOrNothing ==
    execution.status \in TerminalStatuses =>
        \/ /\ Len(Results) = definition.nSteps
           /\ \A r \in 1..Len(Results) : Results[r].status = "SUCCESS"
        \/ \A idx \in SucceededSteps :
              \E r \in 1..Len(Results) :
                 /\ Results[r].stepId = definition.ids[idx + 1]
                 /\ Results[r].status = "COMPENSATED"

\* Every step has a policy with at least one attempt, and no attempt, store
\* call or hook has failed.
AllSucceedAtOnce ==
    /\ NoStoreFailure
    /\ NoHookFailure
    /\ Events("rejected") = {}
    /\ Events("timeout") = {}
    /\ \A k \in 1..Len(definition.retryPolicy) :
          definition.retryPolicy[k] = <<>> \/ definition.retryPolicy[k][1].maxAttempts >= 1

\* C2: when every step's action succeeds on its first attempt and no store
\* call or hook fails, executeSaga returns a COMPLETED execution with one
\* SUCCESS result of attempts = 1 per step, and no compensation is invoked.
C2_HappyPath ==
    (Settled /\ AllSucceedAtOnce) =>
        /\ pc = "returned"
        /\ execution.status = "COMPLETED"
        /\ Len(Results) = definition.nSteps
        /\ \A r \in 1..Len(Results) :
              /\ Results[r].status = "SUCCESS"
              /\ Results[r].attempts = 1
              /\ Results[r].stepId = definition.ids[r]
        /\ Events("compensation") = {}

C2_Witness ==
    /\ pc = "returned"
    /\ AllSucceedAtOnce
    /\ definition.nSteps = 3
    /\ Len(Results) = 3

\* C5: executeSaga returns only a COMPLETED or COMPENSATED execution with
\* completedAt stamped, and it throws exactly when the execution ends FAILED.
C5_ReturnOrThrow ==
    /\ pc = "returned" =>
          /\ execution.status \in {"COMPLETED", "COMPENSATED"}
          /\ execution.completedAt
    /\ pc = "thrown" => (execution.status = "FAILED" /\ thrown # NoError)
    /\ execution.status = "FAILED" => pc \in {"updateFailed", "thrown"}

C5_Witness ==
    /\ pc = "thrown"
    /\ execution.status = "FAILED"
    /\ \E r \in 1..Len(Results) : Results[r].status = "COMPENSATED"

\* C6: as long as no store call and no hook fails, executeSaga does not throw:
\* a step whose attempts all fail, and a compensation that throws, end in a
\* returned execution with status COMPENSATED.
C6_StepFailureNotThrown ==
    (NoStoreFailure /\ NoHookFailure) =>
        /\ pc \notin {"updateFailed", "thrown"}
        /\ thrown = NoError
        /\ execution.status # "FAILED"
        /\ (Settled /\ (Events("compensationThrew") # {}
                        \/ \E r \in 1..Len(Results) : Results[r].status = "FAILED"))
              => (pc = "returned" /\ execution.status = "COMPENSATED")

C6_Witness ==
    /\ pc = "returned"
    /\ NoStoreFailure /\ NoHookFailure
    /\ Events("compensationThrew") # {}
    /\ Events("timeout") # {}
    /\ Results[Len(Results)].status = "FAILED"


\* The steps whose compensation was invoked, in the order of the invocations.
CompensationOrder ==
    LET at == Events("compensation")
        RECURSIVE Order(_)
        Order(k) ==
            IF k > Len(trace) THEN <<>>
            ELSE IF k \in at THEN <<trace[k].step>> \o Order(k + 1)
            ELSE Order(k + 1)
    IN Order(1)

\* k-1, k-2, ..., 0
Descending(k) == [m \in 1..k |-> k - m]

\* The last result is FAILED: step FailedStep exhausted its attempts after the
\* steps before it succeeded.
SomeStepFailed == Results # <<>> /\ Results[Len(Results)].status = "FAILED"
FailedStep == Len(Results) - 1

\* No step the sweep looked up lacks a compensation, and no compensation threw.
CompensationsSucceed ==
    /\ \A k \in DOMAIN definition.compensation : definition.compensation[k]
    /\ Events("compensationThrew") = {}

ReverseSweepDone ==
    /\ CompensationOrder = Descending(FailedStep)
    /\ Results[Len(Results)].stepId = definition.ids[FailedStep + 1]
    /\ \A k \in Events("action") : trace[k].step <= FailedStep

C4_TerminalAbsorbing ==
    [][execution.status \in TerminalStatuses =>
          /\ execution'.status = execution.status
          /\ execution'.stepResults = execution.stepResults]_vars

\* The FAILED record with error err was handed to the store and the call returned.
FailedRecordPersisted(err) ==
    \E k \in Events("store") :
       /\ trace[k].status = "FAILED"
       /\ trace[k].error = err
       /\ k < Len(trace)
       /\ trace[k + 1].kind = "stored"

\* C7: whenever a store call throws, the execution is marked FAILED with that
\* error attached, the FAILED record is persisted, and that same error is
\* raised to the caller of executeSaga.
C7_StoreFailureHandled ==
    Settled =>
        \A k \in Events("storeThrew") :
           /\ pc = "thrown"
           /\ execution.status = "FAILED"
           /\ execution.error = trace[k].error
           /\ FailedRecordPersisted(trace[k].error)
           /\ thrown = trace[k].error

\* C8: if every step succeeds and onSuccess throws, executeSaga throws that
\* error, the execution ends FAILED, and neither a compensation nor onFailure
\* is invoked.
C8_OnSuccessThrows ==
    Settled =>
        \A k \in Events("hookThrew") :
           trace[k].hook = "onSuccess" =>
              /\ pc = "thrown"
              /\ thrown = trace[k].error
              /\ execution.status = "FAILED"
              /\ Len(Results) = definition.nSteps
              /\ \A r \in 1..Len(Results) : Results[r].status = "SUCCESS"
              /\ Events("compensation") = {}
              /\ Events("onFailure") = {}

\* The effective retry policy of step idx, once executeStep has read it.
PolicyOfStep(idx) ==
    IF definition.retryPolicy[idx + 1] = <<>> THEN defaultRetryPolicy
    ELSE definition.retryPolicy[idx + 1][1]

\* The attempts of step idx: those invoked, those that resolved, those that failed.
Invoked(idx) == {trace[k].attempt : k \in {m \in Events("action") : trace[m].step = idx}}
Resolved(idx) == {trace[k].attempt : k \in {m \in Events("resolved") : trace[m].step = idx}}
Failed(idx) ==
    {trace[k].attempt :
        k \in {m \in Events("rejected") \cup Events("timeout") : trace[m].step = idx}}
Invocations(idx) == Cardinality({m \in Events("action") : trace[m].step = idx})

\* C9: a step whose action fails on attempts 1..k-1 and succeeds on attempt k
\* has a SUCCESS result with attempts = k <= maxAttempts after exactly k
\* invocations; a step whose attempts all fail has a FAILED result with
\* attempts = maxAttempts after exactly maxAttempts invocations.
C9_AttemptAccounting ==
    \A r \in 1..Len(Results) :
       LET idx == r - 1
           res == Results[r]
           max == PolicyOfStep(idx).maxAttempts
       IN /\ Invoked(idx) = 1..res.attempts
          /\ Invocations(idx) = res.attempts
          /\ res.attempts <= max
          /\ IF Resolved(idx) # {}
             THEN /\ res.status \in {"SUCCESS", "COMPENSATED"}
                  /\ Resolved(idx) = {res.attempts}
                  /\ Failed(idx) = 1..(res.attempts - 1)
             ELSE /\ res.status = "FAILED"
                  /\ res.attempts = max
                  /\ Failed(idx) = 1..max

C9_Witness ==
    /\ Len(Results) = 2
    /\ Results[1].status = "SUCCESS" /\ Results[1].attempts = 2
    /\ Results[2].status = "FAILED" /\ Results[2].attempts = 3

\* The sleeps of step idx.
Sleeps(idx) == {k \in Events("sleep") : trace[k].step = idx}

\* C10: the delay slept before attempt n >= 2 is backoffMs *
\* backoffMultiplier^(n-2); attempt 1 follows no delay, no delay follows a
\* success or the last failed attempt, a step sleeps attempts - 1 times, and
\* maxAttempts = 1 means one try and no delay.
C10_BackoffSchedule ==
    /\ \A k \in Events("action") :
          LET n == trace[k].attempt
              policy == PolicyOfStep(trace[k].step)
          IN IF n = 1
             THEN trace[k - 1].kind # "sleep"
             ELSE /\ trace[k - 1].kind = "sleep"
                  /\ trace[k - 1].step = trace[k].step
                  /\ trace[k - 1].ms = policy.backoffMs * Pow(policy.backoffMultiplier, n - 2)
    /\ \A k \in Events("sleep") :
          /\ trace[k - 1].kind \in {"rejected", "timeout"}
          /\ trace[k - 1].attempt < PolicyOfStep(trace[k].step).maxAttempts
          /\ k < Len(trace) => trace[k + 1].kind = "action"
          /\ k = Len(trace) => pc = "sleep"
    /\ pc = "sleep" => trace[Len(trace)].kind = "sleep"
    /\ \A r \in 1..Len(Results) :
          /\ Results[r].attempts >= 1 => Cardinality(Sleeps(r - 1)) = Results[r].attempts - 1
          /\ PolicyOfStep(r - 1).maxAttempts = 1 =>
                (Invocations(r - 1) = 1 /\ Sleeps(r - 1) = {})

C10_Witness ==
    \E k \in Events("action") :
       /\ trace[k].attempt = 3
       /\ trace[k - 1].kind = "sleep"
       /\ trace[k - 1].ms = 2000
       /\ \E r \in 1..Len(Results) : PolicyOfStep(r - 1).maxAttempts = 1

\* C11: an attempt whose timer fires before the action settles is a failed
\* attempt with a timeout error that counts against maxAttempts: below
\* maxAttempts the backoff sleep and the next attempt follow, at maxAttempts
\* the step returns FAILED with the timeout error; no step is attempted more
\* than maxAttempts times, also while abandoned actions remain unsettled.
C11_TimeoutCounts ==
    /\ \A k \in Events("timeout") :
          LET idx == trace[k].step
              a == trace[k].attempt
              max == PolicyOfStep(idx).maxAttempts
          IN /\ a <= max
             /\ IF a < max
                THEN /\ trace[k + 1].kind = "sleep"
                     /\ trace[k + 1].step = idx /\ trace[k + 1].attempt = a
                ELSE /\ Len(Results) > idx
                     /\ Results[idx + 1].status = "FAILED"
                     /\ Results[idx + 1].error = TimeoutError(idx, a)
                     /\ Results[idx + 1].attempts = max
                     /\ \A m \in Events("action") : trace[m].step = idx => m < k
    /\ \A k \in Events("action") :
          trace[k].attempt <= PolicyOfStep(trace[k].step).maxAttempts
    /\ \A x \in abandoned : \E k \in Events("timeout") :
          trace[k].step = x[1] /\ trace[k].attempt = x[2]

C11_Witness ==
    /\ Settled
    /\ abandoned # {}
    /\ \E r \in 1..Len(Results) :
          /\ Results[r].status = "FAILED"
          /\ Results[r].error[1] = "timeout"
          /\ Results[r].attempts = 3

\* The sweep went on after the compensation of step x threw at trace position
\* k: every earlier step with a compensation had it invoked afterwards, and the
\* result of step x is still SUCCESS.
SweepWentOn(k) ==
    LET x == trace[k].step
    IN /\ Results[x + 1].status = "SUCCESS"
       /\ \A y \in 0..(x - 1) :
             /\ (y + 1) \in DOMAIN definition.compensation
             /\ definition.compensation[y + 1] =>
                   \E m \in Events("compensation") : m > k /\ trace[m].step = y

\* C12: when the compensation of a step throws during the sweep, the
\* compensations of the remaining earlier SUCCESS steps are still invoked, the
\* step's result stays SUCCESS, and the execution ends COMPENSATED.
C12_CompensationTolerated ==
    Settled =>
        \A k \in Events("compensationThrew") :
           /\ SweepWentOn(k)
           /\ execution.status = "COMPENSATED"

\* The steps the sweep found to have no compensation.
Uncompensable == {k \in DOMAIN definition.compensation : ~definition.compensation[k]}

\* C13: a step without a compensation is skipped by the sweep: its result
\* stays SUCCESS, its compensation is never invoked, the sweep goes on with
\* the steps before it, and the final status is COMPENSATED.
C13_NoCompensationSkipped ==
    Settled =>
        \A k \in Uncompensable :
           /\ Results[k].status = "SUCCESS"
           /\ \A m \in Events("compensation") : trace[m].step # k - 1
           /\ \A y \in 1..(k - 1) :
                 /\ y \in DOMAIN definition.compensation
                 /\ definition.compensation[y] =>
                       \E m \in Events("compensation") : trace[m].step = y - 1
           /\ execution.status = "COMPENSATED"

\* C14: a compensation is invoked with the context passed to executeSaga as
\* input and with the output of the step's own successful attempt; once it has
\* succeeded the step's result, at its place in stepResults, is COMPENSATED,
\* and no other result is.
C14_CompensationArguments ==
    /\ \A k \in Events("compensation") :
          LET idx == trace[k].step
          IN /\ trace[k].input = execution.context
             /\ Results[idx + 1].stepId = idx
             /\ Results[idx + 1].input = execution.context
             /\ trace[k].output = Results[idx + 1].output
             /\ \E m \in Events("resolved") :
                   /\ m < k
                   /\ trace[m].step = idx
                   /\ trace[k].output = Output(idx, trace[m].attempt)
             /\ trace[k - 1].kind \in {"stored", "compensated", "compensationThrew"}
    /\ \A r \in 1..Len(Results) :
          Results[r].status = "COMPENSATED" <=>
             \E k \in Events("compensated") : trace[k].step = r - 1
    /\ \A k \in Events("compensated") :
          /\ trace[k - 1].kind = "compensation"
          /\ trace[k - 1].step = trace[k].step

C14_Witness ==
    /\ Settled
    /\ \E k \in Events("compensated") :
          /\ trace[k].step = 0
          /\ Results[1].status = "COMPENSATED"
          /\ Results[1].attempts = 2
          /\ trace[k - 1].output = Output(0, 2)
    /\ Len(Results) = 3

\* C15: every started execution eventually reaches a terminal status with
\* executeSaga returned or thrown, whatever actions and compensations do,
\* given that timers fire and store calls return.
C15_Terminates ==
    (pc # "idle") ~> (Settled /\ execution.status \in TerminalStatuses)

\* ------------------------------------------------------------------------
\* Properties of the outbox

EventIds == 1..Len(outboxStore)

\* No sweep in flight is at event id.
Quiet(id) ==
    \A w \in 1..Len(sweeps) :
       sweeps[w].pc \in {"publish", "markEventPublished", "markMaxRetries", "markEventFailed"}
          => CurrentEvent(OutboxCur, w).id # id

\* C16: an event whose publish succeeded has been passed to broker.publish
\* once, marked PUBLISHED by one markEventPublished call, and is PUBLISHED
\* from then on, whatever ticks and processNow calls follow.
C16_ExactlyOnce ==
    \A id \in EventIds :
       calls[id].accepted >= 1 =>
          /\ calls[id].publish = 1
          /\ calls[id].markEventPublished = 1
          /\ Quiet(id) => outboxStore[id].status = "PUBLISHED"

\* C17: an event whose retryCount has reached maxRetries when processEvent
\* looks at it is not passed to broker.publish: markEventFailed(id, 'Max
\* retries exceeded') is called instead, and once that call has returned the
\* sweep has moved on past the event.
C17_MaxRetriesNotPublished ==
    /\ \A id \in EventIds : \A rc \in calls[id].retryCounts : rc < maxRetries
    /\ \A w \in 1..Len(sweeps) :
          /\ sweeps[w].pc = "markMaxRetries" =>
                /\ calls[CurrentEvent(OutboxCur, w).id].maxRetriesMarks >= 1
                /\ liveObjects \/ RetryCount(OutboxCur, w) >= maxRetries
          /\ (sweeps[w].pc = "publish" /\ ~liveObjects) =>
                RetryCount(OutboxCur, w) < maxRetries
    /\ \A id \in EventIds :
          /\ outboxStore[id].error = MaxRetriesMessage =>
                (calls[id].maxRetriesMarks >= 1 /\ outboxStore[id].status # "PENDING")
          /\ maxRetries = 0 => calls[id].publish = 0

C17_Witness ==
    /\ maxRetries = 1
    /\ \E id \in EventIds :
          /\ calls[id].publish = 1
          /\ calls[id].rejected = 1
          /\ calls[id].maxRetriesMarks = 1
          /\ outboxStore[id].status = "FAILED"
          /\ outboxStore[id].error = MaxRetriesMessage

\* C18: an event is FAILED only after maxRetries publish attempts have
\* failed: after fewer failures it is still offered to the broker by a later
\* sweep.
C18_RetriedUpToCap ==
    \A id \in EventIds :
       (outboxStore[id].status = "FAILED" /\ Quiet(id)) =>
           calls[id].rejected >= maxRetries

\* C19: a sweep that has fetched its pending events hands every one of them
\* to processEvent, whatever publish or store call fails on the way: when the
\* sweep is over, its loop has reached the last event.
C19_SweepIsolation ==
    \A w \in 1..Len(sweeps) :
       (sweeps[w].pc = "done" /\ sweeps[w].pendingEvents # <<>>) =>
           sweeps[w].k >= Len(sweeps[w].pendingEvents)

\* A sweep is past getPendingEvents and not yet done.
Sweeping(w) ==
    sweeps[w].pc \in {"publish", "markEventPublished", "markMaxRetries", "markEventFailed"}

\* C20: sweeps are serialized: no two sweeps are in flight at once, so no
\* two sweeps are at the same event and no event is published by both.
C20_SweepsSerialized ==
    \A w1, w2 \in 1..Len(sweeps) :
       (w1 # w2 /\ Sweeping(w1) /\ Sweeping(w2)) =>
           CurrentEvent(OutboxCur, w1).id # CurrentEvent(OutboxCur, w2).id

\* C21: at most one interval timer is set, isRunning holds exactly when one
\* is set and poller holds it; start creates one timer when not running and
\* none when running, stop clears it, and stop when not running changes
\* nothing.
C21_Lifecycle ==
    /\ [](/\ timers \in {0, 1}
          /\ isRunning <=> (timers = 1)
          /\ poller <=> isRunning)
    /\ [][/\ Start => (isRunning' /\ timers' = 1 /\ ~isRunning /\ timers = 0)
          /\ Stop => (~isRunning' /\ timers' = 0 /\ isRunning /\ timers = 1)
          /\ timers' # timers => (Start \/ Stop)]_vars

C21_Witness ==
    /\ isRunning /\ timers = 1
    /\ \E w \in 1..Len(sweeps) : sweeps[w].by = "timer" /\ sweeps[w].pc = "done"
    /\ \E w \in 1..Len(sweeps) : sweeps[w].by = "processNow"

\* C22: a processNow call is one processPendingEvents call; no step of a
\* sweep changes isRunning, poller or the timers, started or stopped; and the
\* call resolves, also when getPendingEvents has thrown.
C22_ProcessNow ==
    /\ [](\A w \in 1..Len(sweeps) :
             sweeps[w].by = "processNow" =>
                IF sweeps[w].pc = "done" THEN sweeps[w].outcome = "resolved"
                ELSE sweeps[w].outcome = "pending")
    /\ [][sweeps' # sweeps =>
             /\ Len(sweeps') \in {Len(sweeps), Len(sweeps) + 1}
             /\ UNCHANGED <<isRunning, poller, timers>>]_vars

C22_Witness ==
    /\ isRunning
    /\ \E w \in 1..Len(sweeps) :
          /\ sweeps[w].by = "processNow"
          /\ sweeps[w].pc = "done"
          /\ sweeps[w].aborted /\ sweeps[w].k = 0
    /\ \E w \in 1..Len(sweeps) :
          /\ sweeps[w].by = "processNow"
          /\ sweeps[w].pc = "done"
          /\ ~sweeps[w].aborted /\ sweeps[w].k = 3

\* The storeEvent calls that returned.
Returned == {n \in 1..Len(storeEventCalls) : ~storeEventCalls[n].thrown}

\* C23: a storeEvent call that returns has saved exactly one event, with the
\* sagaId, stepId, eventType and payload it was given, status PENDING and
\* retryCount 0, and has returned that event's id; a call in which saveEvent
\* fails throws, returns no id and saves nothing.
C23_StoreEvent ==
    /\ [](/\ Cardinality(Returned) = Len(outboxStore)
          /\ \A n \in 1..Len(storeEventCalls) :
                LET call == storeEventCalls[n]
                IN IF call.thrown THEN call.returned = <<>>
                   ELSE /\ Len(call.returned) = 1
                        /\ call.returned[1] \in 1..Len(outboxStore)
                        /\ LET event == outboxStore[call.returned[1]]
                           IN /\ event.id = call.returned[1]
                              /\ event.sagaId = call.sagaId
                              /\ event.stepId = call.stepId
                              /\ event.eventType = call.eventType
                              /\ event.payload = call.payload
          /\ \A m, n \in Returned :
                m # n => storeEventCalls[m].returned # storeEventCalls[n].returned)
    /\ [][Len(storeEventCalls') > Len(storeEventCalls) =>
             LET call == storeEventCalls'[Len(storeEventCalls')]
             IN IF call.thrown THEN outboxStore' = outboxStore
                ELSE /\ Len(outboxStore') = Len(outboxStore) + 1
                     /\ SubSeq(outboxStore', 1, Len(outboxStore)) = outboxStore
                     /\ outboxStore'[Len(outboxStore')].status = "PENDING"
                     /\ outboxStore'[Len(outboxStore')].retryCount = 0
                     /\ call.returned = <<Len(outboxStore')>>]_vars

C23_Witness ==
    /\ Len(storeEventCalls) = 2
    /\ storeEventCalls[1].thrown
    /\ storeEventCalls[2].returned = <<1>>
    /\ outboxStore[1].sagaId = "saga1" /\ outboxStore[1].stepId = "step1"

\* C24: when an execute call has settled, its event is stored exactly when
\* its business logic took effect: nothing is stored when businessLogic
\* threw, and the event is stored whenever businessLogic succeeded.
C24_AtomicTransaction ==
    \A x \in 1..Len(transactions) :
       transactions[x].pc \in {"returned", "thrown"} =>
          /\ transactions[x].business <=> transactions[x].stored # <<>>
          /\ transactions[x].pc = "returned" <=> transactions[x].business

\* Character n of the event type as the topic shows it: lower-cased, after a
\* '.' when it is an upper-case letter other than the first character.
TopicPiece(n) ==
    (IF IsUpper(topicEventType[n]) /\ n > 1 THEN <<".">> ELSE <<>>)
        \o <<ToLower(topicEventType[n])>>

RECURSIVE TopicFrom(_)
TopicFrom(n) == IF n > Len(topicEventType) THEN <<>> ELSE TopicPiece(n) \o TopicFrom(n + 1)

\* C25: the topic is the event type with a '.' before every upper-case
\* letter, lower-cased, less one leading '.'; it holds no upper-case letter;
\* PaymentProcessed gives payment.processed and Created gives created.
C25_TopicDerivation ==
    topic # <<>> =>
        /\ topic[1] = TopicFrom(1)
        /\ \A n \in 1..Len(topic[1]) : ~IsUpper(topic[1][n])
        /\ topicEventType # <<>> => topic[1][1] # "."
        /\ topicEventType = PaymentProcessed =>
              topic[1] = <<"p", "a", "y", "m", "e", "n", "t", ".",
                           "p", "r", "o", "c", "e", "s", "s", "e", "d">>
        /\ topicEventType = Created => topic[1] = <<"c", "r", "e", "a", "t", "e", "d">>

C25_Witness ==
    /\ topicEventType = PaymentProcessed
    /\ topic = <<<<"p", "a", "y", "m", "e", "n", "t", ".",
                   "p", "r", "o", "c", "e", "s", "s", "e", "d">>>>

\* The requests passed on to next().
PassedOn(key) == {r \in 1..Len(requests) : requests[r].key = key /\ requests[r].next >= 1}

\* The request was handled with no other request in flight.
Sequential(r) == requests[r].pc = "done" /\ ~requests[r].overlapped

\* What a request handled by itself does: without a key next() and no store
\* call; with a key found unexpired 409, no next() and no write; with a key
\* not found one write with the expiry and one next().
HandledAsGuarded(r) ==
    LET req == requests[r]
    IN /\ req.key = <<>> => (req.next = 1 /\ req.gets = 0 /\ req.sets = 0 /\ req.status = 0)
       /\ (req.key # <<>> /\ req.existingKey # {}) =>
             (req.status = 409 /\ req.next = 0 /\ req.sets = 0)
       /\ (req.key # <<>> /\ req.existingKey = {}) =>
             /\ req.status = 0 /\ req.next = 1 /\ req.sets = 1
             /\ \E e \in idempotencyStore :
                   e.key = req.key[1] /\ e.expiresAt >= req.expiresAt
             /\ req.expiresAt > 0

\* Requests r1 before r2, one after the other with the same key, r2 handled
\* before the key set by r1 expired.
RepeatWithinExpiry(r1, r2) ==
    /\ r1 < r2
    /\ requests[r1].key # <<>> /\ requests[r1].key = requests[r2].key
    /\ requests[r1].next >= 1
    /\ now < requests[r1].expiresAt

C27_AtMostOnePassedOn ==
    (now < defaultKeyExpiryHours /\ \A r \in 1..Len(requests) : ~requests[r].threw) =>
        \A key \in IdempotencyKeys \ {<<>>} : Cardinality(PassedOn(key)) <= 1

\* A step is in flight: executeStep has been called and has not returned.
StepInFlight == pc \in {"action", "sleep"}

\* C28 as stated: while step currentStep is in flight stepResults holds
\* currentStep + 1 entries.
C28_AsStated == StepInFlight => Len(Results) = execution.currentStep + 1

\* C28 amended: stepResults grows by one entry at a time, the entry of step
\* currentStep at place currentStep (counted from 0), so no step index has two
\* entries; it holds one entry for every step whose executeStep has returned:
\* currentStep entries while step currentStep is in flight, currentStep + 1
\* from its return on.
C28_StepResults ==
    /\ [](StepInFlight => (execution.currentStep = i /\ Len(Results) = execution.currentStep))
    /\ [](pc = "updateStep" => Len(Results) = execution.currentStep + 1)
    /\ [](execution.currentStep # NoStep =>
             Len(Results) \in {execution.currentStep, execution.currentStep + 1})
    /\ [][Len(execution'.stepResults) # Len(execution.stepResults) =>
            /\ Len(execution'.stepResults) = Len(execution.stepResults) + 1
            /\ Len(execution.stepResults) = execution'.currentStep
            /\ execution'.stepResults[Len(execution'.stepResults)].stepId =
                  definition'.ids[execution'.currentStep + 1]
            /\ SubSeq(execution'.stepResults, 1, Len(execution.stepResults)) =
                  execution.stepResults]_vars

C28_Witness ==
    /\ pc = "action"
    /\ execution.currentStep = 1
    /\ Len(Results) = 1
    /\ attempt = 2

\* C29: while an action attempt or a compensation is in flight, no action
\* attempt started earlier is still unsettled.
C29_NoParallelism == pc \in {"action", "compensation"} => abandoned = {}

\* C30: the execution's status is COMPLETED only from RUNNING with a SUCCESS
\* result for every step, COMPENSATING only from RUNNING with a FAILED last
\* result, COMPENSATED only from COMPENSATING, RUNNING only from PENDING;
\* COMPLETED is never followed by COMPENSATING or COMPENSATED, nor they by
\* COMPLETED.
C30_StatusEdges ==
    [][/\ (execution'.status = "COMPLETED" /\ execution.status # "COMPLETED") =>
             /\ execution.status = "RUNNING"
             /\ Len(execution'.stepResults) = definition'.nSteps
             /\ \A r \in 1..Len(execution'.stepResults) :
                   execution'.stepResults[r].status = "SUCCESS"
       /\ (execution'.status = "COMPENSATING" /\ execution.status # "COMPENSATING") =>
             /\ execution.status = "RUNNING"
             /\ execution'.stepResults # <<>>
             /\ execution'.stepResults[Len(execution'.stepResults)].status = "FAILED"
       /\ (execution'.status = "COMPENSATED" /\ execution.status # "COMPENSATED") =>
             execution.status = "COMPENSATING"
       /\ (execution'.status = "RUNNING" /\ execution.status # "RUNNING") =>
             execution.status = "PENDING"
       /\ execution.status = "COMPLETED" =>
             execution'.status \in {"COMPLETED", "FAILED"}
       /\ execution.status \in {"COMPENSATING", "COMPENSATED", "FAILED"} =>
             execution'.status \in {"COMPENSATING", "COMPENSATED", "FAILED"}]_vars

C30_Witness ==
    /\ execution.status = "COMPENSATED"
    /\ \E k \in Events("resolved") : TRUE
    /\ Len(Results) = 2
    /\ Results[2].status = "FAILED"

\* The store calls that resolved: the records that were persisted.
Persisted == {k \in Events("store") : k < Len(trace) /\ trace[k + 1].kind = "stored"}

PersistedBefore(k, status) == \E p \in Persisted : p < k /\ trace[p].status = status

\* saveExecution is called once, with status PENDING; before an action is
\* invoked the PENDING and the RUNNING record have been persisted, and so has
\* a record with the SUCCESS result of the step before; before a compensation
\* is invoked a COMPENSATING record has been persisted.
PersistedBeforeUse ==
    /\ pc # "idle" =>
          /\ Cardinality({k \in Events("store") : trace[k].call = "saveExecution"}) = 1
          /\ trace[1].kind = "store" /\ trace[1].call = "saveExecution"
          /\ trace[1].status = "PENDING"
    /\ \A a \in Events("action") :
          /\ 1 \in Persisted /\ 1 < a
          /\ PersistedBefore(a, "RUNNING")
          /\ trace[a].step > 0 =>
                \E p \in Persisted :
                   /\ p < a
                   /\ Len(trace[p].results) = trace[a].step
                   /\ trace[p].results[trace[a].step] = "SUCCESS"
    /\ \A c \in Events("compensation") : PersistedBefore(c, "COMPENSATING")

\* Once executeSaga has settled the record persisted last carries the
\* execution's terminal status.
LastPersistedTerminal ==
    Settled =>
        /\ execution.status \in TerminalStatuses
        /\ Persisted # {}
        /\ \E p \in Persisted :
              /\ \A q \in Persisted : q <= p
              /\ trace[p].status = execution.status

\* C31: the store receives saveExecution once with status PENDING before any
\* action; a RUNNING record is persisted before the first action, a record
\* with a step's result before the next step's action, a COMPENSATING record
\* before the first compensation; the last persisted record carries the
\* terminal status.
C31_PersistenceOrder == PersistedBeforeUse /\ LastPersistedTerminal

\* The hook invocations.
Hooks == Events("onSuccess") \cup Events("onFailure")

\* C32: at most one of onSuccess and onFailure is invoked, and once; while
\* onSuccess runs the status is COMPLETED, every step has a SUCCESS result and
\* no COMPLETED record has been handed to the store; while onFailure runs the
\* sweep is over, the status is COMPENSATED and the hook has received the
\* error of the FAILED result; no compensation is invoked after a hook.
C32_HooksExclusive ==
    /\ Cardinality(Hooks) <= 1
    /\ \A h \in Hooks : \A k \in Events("compensation") \cup Events("action") : k < h
    /\ \A h \in Events("onSuccess") :
          \A k \in Events("store") : trace[k].status = "COMPLETED" => h < k
    /\ \A h \in Events("onFailure") :
          \A k \in Events("store") : trace[k].status = "COMPENSATED" => h < k
    /\ pc = "onSuccess" =>
          /\ trace[Len(trace)].kind = "onSuccess"
          /\ execution.status = "COMPLETED"
          /\ Len(Results) = definition.nSteps
          /\ \A r \in 1..Len(Results) : Results[r].status = "SUCCESS"
    /\ pc = "onFailure" =>
          /\ trace[Len(trace)].kind = "onFailure"
          /\ execution.status = "COMPENSATED"
          /\ completedSteps = <<>>
          /\ Results # <<>>
          /\ Results[Len(Results)].status = "FAILED"
          /\ trace[Len(trace)].error = Results[Len(Results)].error

C32_Witness ==
    /\ pc = "onFailure"
    /\ Events("compensated") # {}
    /\ Results[Len(Results)].error # NoError

\* The record handed to the store when the sweep began.
SweepBegan == {p \in Events("store") : trace[p].status = "COMPENSATING"}

\* C33: a step's compensation is invoked at most once, and only for a step
\* whose result was SUCCESS when the sweep began; the compensation of the
\* failing step is never invoked, whether or not its timed-out action has
\* settled since; an execution that was COMPLETED has no compensation call.
C33_CompensationOnce ==
    /\ \A k, m \in Events("compensation") : trace[k].step = trace[m].step => k = m
    /\ \A k \in Events("compensation") :
          /\ \E p \in SweepBegan :
                /\ p < k
                /\ Len(trace[p].results) > trace[k].step
                /\ trace[p].results[trace[k].step + 1] = "SUCCESS"
                /\ trace[p].results[Len(trace[p].results)] = "FAILED"
                /\ trace[k].step # Len(trace[p].results) - 1
          /\ trace[k].step # execution.currentStep
          /\ \E m \in Events("resolved") : m < k /\ trace[m].step = trace[k].step
    /\ (execution.status = "COMPLETED" \/ Events("onSuccess") # {}
        \/ \E p \in Events("store") : trace[p].status = "COMPLETED") =>
          Events("compensation") = {}

C33_Witness ==
    /\ Settled
    /\ Events("compensation") # {}
    /\ \E k \in Events("timeout") : trace[k].step = execution.currentStep
    /\ abandoned = {}
    /\ execution.currentStep = 1

\* The timed-out attempts whose action has settled since.
LateSettled ==
    {k \in Events("timeout") : <<trace[k].step, trace[k].attempt>> \notin abandoned}

\* C34: the settlement of an action whose attempt was already failed by its
\* timeout changes nothing of the execution, the result, the attempt counter,
\* the sweep or the calls made; after it the retry that followed the timeout
\* is still there, and a step that failed on the timeout keeps its FAILED
\* result with the timeout error, no output and the same attempts.
C34_LateSettlementInert ==
    /\ [][(abandoned' # abandoned /\ abandoned' \subseteq abandoned) =>
             UNCHANGED <<definition, execution, pc, i, attempt, stepResult,
                         completedSteps, failureError, thrown, trace>>]_vars
    /\ [](\A k \in LateSettled :
             LET idx == trace[k].step
                 a == trace[k].attempt
             IN IF a < PolicyOfStep(idx).maxAttempts
                THEN trace[k + 1].kind = "sleep"
                ELSE /\ Results[idx + 1].status = "FAILED"
                     /\ Results[idx + 1].error = TimeoutError(idx, a)
                     /\ Results[idx + 1].output = NoValue
                     /\ Results[idx + 1].attempts = a)

C34_Witness ==
    /\ LateSettled # {}
    /\ pc = "compensation"
    /\ Results[Len(Results)].status = "FAILED"
    /\ Results[Len(Results)].error[1] = "timeout"

\* The ids of a batch, in its order.
BatchIds(batch) == [n \in 1..Len(batch) |-> batch[n].id]

\* C35: a sweep calls getPendingEvents once and keeps the batch it returned;
\* it goes through the batch in its order, one place at a time, and it moves
\* to the next event only when a markEventPublished or markEventFailed call
\* for the event before has returned, the event then being PUBLISHED or
\* FAILED in the store; a sweep that is over does nothing more.
C35_SweepOrder ==
    [][\A w \in 1..Len(sweeps) :
          /\ Len(sweeps') >= Len(sweeps)
          /\ sweeps[w].pc = "done" => sweeps'[w] = sweeps[w]
          /\ sweeps'[w].pc = "getPendingEvents" => sweeps'[w] = sweeps[w]
          /\ sweeps[w].pc # "getPendingEvents" =>
                BatchIds(sweeps'[w].pendingEvents) = BatchIds(sweeps[w].pendingEvents)
          /\ (sweeps[w].pc = "getPendingEvents" /\ ~sweeps'[w].aborted
              /\ sweeps'[w].pc # "getPendingEvents") =>
                /\ BatchIds(sweeps'[w].pendingEvents) =
                      BatchIds(getPendingEvents(outboxStore, 1))
                /\ sweeps'[w].k = 1
          /\ sweeps'[w].k # sweeps[w].k =>
                /\ sweeps'[w].k = sweeps[w].k + 1
                /\ sweeps[w].k >= 1 =>
                      /\ sweeps[w].pc \in {"markEventPublished", "markMaxRetries",
                                           "markEventFailed"}
                      /\ outboxStore'[sweeps[w].pendingEvents[sweeps[w].k].id].status
                            \in {"PUBLISHED", "FAILED"}
          /\ (sweeps'[w].pc = "publish" /\ sweeps[w].pc # "publish") =>
                sweeps'[w].k = sweeps[w].k + 1]_vars

C35_Witness ==
    \E w \in 1..Len(sweeps) :
       /\ Len(sweeps[w].pendingEvents) = 2
       /\ sweeps[w].pc = "publish"
       /\ sweeps[w].k = 2
       /\ outboxStore[sweeps[w].pendingEvents[1].id].status = "PUBLISHED"
       /\ calls[sweeps[w].pendingEvents[2].id].publish = 1

\* C36: markEventFailed is not called for an event whose publish the broker
\* has accepted.
C36_AcceptedNotFailed ==
    \A w \in 1..Len(sweeps) :
       sweeps[w].pc \in {"markEventFailed", "markMaxRetries"} =>
           calls[CurrentEvent(OutboxCur, w).id].accepted = 0

\* C37: stop changes no event, no sweep and no call; the timer starts a sweep
\* only while the outbox is running; a sweep in flight is never held back,
\* running or not: the call it awaits can settle and the sweep go on.
C37_StopAndSweep ==
    /\ [][Stop => UNCHANGED <<outboxStore, sweeps, calls, storeEventCalls>>]_vars
    /\ [][(Len(sweeps') > Len(sweeps) /\ sweeps'[Len(sweeps')].by = "timer") =>
             (isRunning /\ isRunning')]_vars
    /\ [](\A w \in 1..Len(sweeps) :
             /\ sweeps[w].pc = "getPendingEvents" => ENABLED GetPendingEventsSettled
             /\ sweeps[w].pc = "publish" => ENABLED PublishSettled
             /\ sweeps[w].pc = "markEventPublished" => ENABLED MarkEventPublishedSettled
             /\ sweeps[w].pc = "markMaxRetries" => ENABLED MarkMaxRetriesSettled
             /\ sweeps[w].pc = "markEventFailed" => ENABLED MarkEventFailedSettled)

C37_Witness ==
    /\ ~isRunning /\ timers = 0
    /\ \E w \in 1..Len(sweeps) :
          /\ sweeps[w].by = "timer"
          /\ Len(sweeps[w].pendingEvents) = 2
          /\ sweeps[w].pc = "done" /\ ~sweeps[w].aborted
          /\ \A n \in 1..2 : outboxStore[sweeps[w].pendingEvents[n].id].status = "PUBLISHED"
    /\ \E w \in 1..Len(sweeps) : sweeps[w].by = "timer" /\ sweeps[w].pc = "publish"

\* C38: execution.error is set exactly while the status is FAILED; a
\* COMPENSATED execution carries no error of its own, the cause being on the
\* FAILED result.
C38_ErrorIffFailed ==
    /\ execution.error # NoError <=> execution.status = "FAILED"
    /\ \A k \in Events("store") : trace[k].error # NoError <=> trace[k].status = "FAILED"

C38_Witness ==
    /\ pc = "returned"
    /\ execution.status = "COMPENSATED"
    /\ execution.error = NoError
    /\ Results[Len(Results)].status = "FAILED"
    /\ Results[Len(Results)].error # NoError

\* C39: a request one of whose store calls threw is answered neither 409 nor
\* an error and is passed on by one next() call, also when its key is in the
\* store unexpired.
C39_FailsOpen ==
    \A r \in 1..Len(requests) :
       requests[r].threw =>
          /\ requests[r].pc = "done"
          /\ requests[r].status = 0
          /\ requests[r].next = 1

C39_Witness ==
    /\ Len(requests) >= 2
    /\ requests[1].key = <<"key1">> /\ requests[1].next = 1 /\ ~requests[1].threw
    /\ requests[2].key = <<"key1">> /\ requests[2].threw /\ requests[2].next = 1
    /\ ~requests[2].overlapped
    /\ get(idempotencyStore, "key1", now) # {}
    /\ requests[2].gets = 1 /\ requests[2].sets = 0

\* The steps read so far whose effective maxAttempts is 0 or less.
ZeroAttemptSteps ==
    {idx \in 0..(Len(definition.retryPolicy) - 1) : PolicyOfStep(idx).maxAttempts <= 0}

\* executeStep with no attempt to make: the action is not invoked and the
\* result is FAILED with attempts 0 and no error; onFailure gets no error.
ZeroAttemptsResult ==
    \A idx \in ZeroAttemptSteps :
       /\ \A k \in Events("action") : trace[k].step # idx
       /\ Len(Results) > idx
       /\ Results[idx + 1].status = "FAILED"
       /\ Results[idx + 1].attempts = 0
       /\ Results[idx + 1].error = NoError
       /\ Results[idx + 1].output = NoValue
       /\ \A h \in Events("onFailure") : trace[h].error = NoError

\* C40: with maxAttempts 0 or less the action is never invoked and the
\* result is FAILED with attempts 0 and no error; once the sweep has begun
\* the saga ends COMPENSATED, and onFailure receives an undefined error.
C40_ZeroAttempts ==
    /\ ZeroAttemptsResult
    /\ (ZeroAttemptSteps # {} /\ Settled /\ PersistedBefore(Len(trace), "COMPENSATING")) =>
          execution.status = "COMPENSATED"

====
